---- MODULE Spec2Model ----
(***************************************************************************)
(* Moulti: the step content streaming pipeline of the Step widget          *)
(* (src/src/moulti/widgets/step/tui.py).                                   *)
(*                                                                         *)
(* A "pass" command starts two thread workers connected by a queue: the    *)
(* reader (append_from_file_descriptor_to_queue) reads chunks from a file  *)
(* descriptor, pushes them and finally None (EOF) onto the queue, then     *)
(* replies to the client; the assembler (append_from_queue) turns chunks   *)
(* into complete lines and hands them to Step.append through               *)
(* app.call_from_thread, i.e. on the single mutation context.              *)
(*                                                                         *)
(* Text is a sequence of one-character strings.  Thread steps are split at *)
(* every access to shared state (queue, is_cancelled, prevent_deletion,    *)
(* call_from_thread).                                                      *)
(***************************************************************************)
EXTENDS Integers, Sequences, FiniteSets, TLC

(***************************************************************************)
(* Bounds of the model.                                                    *)
(***************************************************************************)
NSess == 2          \* pass commands (stream sessions) on the step
MaxText == 2        \* characters held by a descriptor
MaxReadSize == 2    \* largest read_size a pass command supplies
MaxCmds == 1        \* plain append / clear commands
MaxCalls == 2       \* append / clear commands when the step receives nothing else
MaxWordTokens == 2  \* tokens (a character or a style sequence) of their texts
MaxStreamTokens == 4 \* tokens held by a descriptor that delivers styled text

Sess == 1..NSess

(***************************************************************************)
(* Characters.                                                             *)
(***************************************************************************)
ANSI_ESCAPE_SEQUENCE == "ESC"
NL == "\n"
SgrBold == <<ANSI_ESCAPE_SEQUENCE, "[", "1", "m">>
SgrReset == <<ANSI_ESCAPE_SEQUENCE, "[", "0", "m">>

\* Queue items: a chunk of text, or the EOF marker (Python None).
Chunk(data) == [eof |-> FALSE, data |-> data]
EOF == [eof |-> TRUE, data |-> <<>>]
NoError == "None"   \* error = None

RECURSIVE SeqsUpTo(_, _)
SeqsUpTo(S, n) ==
    IF n = 0 THEN {<<>>}
    ELSE LET shorter == SeqsUpTo(S, n - 1)
         IN shorter \cup {Append(t, c) : t \in shorter, c \in S}

\* Contents of the descriptors handed to pass commands.
StreamAlphabet == {"a", NL}
StreamTexts == SeqsUpTo(StreamAlphabet, MaxText)

\* kwargs['text'] of an append command: a list of strings.
AppendWords == {<<"a">>, SgrBold \o <<"a">>}
AppendTextLists == {<<w>> : w \in AppendWords}

\* Texts made of visible characters, newlines and style sequences.
TextTokens == {<<"a">>, <<NL>>, SgrBold, SgrReset}

RECURSIVE TokenTexts(_)
TokenTexts(n) ==
    IF n = 0 THEN {<<>>}
    ELSE LET shorter == TokenTexts(n - 1)
         IN shorter \cup {t \o k : t \in shorter, k \in TextTokens}

RichWords == TokenTexts(MaxWordTokens)

\* kwargs.get('read_size'): absent, an integer, or something int() refuses.
\* ("str": a value such as 'x').
ReadSizeArg(kind, value) == [kind |-> kind, value |-> value]
ReadSizeArgs ==
    {ReadSizeArg("absent", 0), ReadSizeArg("str", 0)}
        \cup {ReadSizeArg("int", n) : n \in -1..MaxReadSize}

(***************************************************************************)
(* String helpers (Python str operations used by the code).                *)
(***************************************************************************)
Contains(text, c) == \E i \in 1..Len(text) : text[i] = c

EndsWith(text, suffix) ==
    /\ Len(text) >= Len(suffix)
    /\ SubSeq(text, Len(text) - Len(suffix) + 1, Len(text)) = suffix

\* data.rfind(c), 1-based; 0 when absent (Python: -1).
RFind(data, c) ==
    IF Contains(data, c)
    THEN CHOOSE i \in 1..Len(data) :
            /\ data[i] = c
            /\ \A j \in (i + 1)..Len(data) : data[j] # c
    ELSE 0

RECURSIVE Join(_)
\* ''.join(buffer)
Join(buffer) == IF buffer = <<>> THEN <<>> ELSE Head(buffer) \o Join(Tail(buffer))

RECURSIVE JoinWith(_, _)
\* sep.join(list)
JoinWith(list, sep) ==
    IF list = <<>> THEN <<>>
    ELSE IF Len(list) = 1 THEN Head(list)
    ELSE Head(list) \o sep \o JoinWith(Tail(list), sep)

RECURSIVE Split(_, _)
\* text.split(c): always at least one piece.
Split(text, c) ==
    IF ~Contains(text, c) THEN <<text>>
    ELSE LET i == CHOOSE k \in 1..Len(text) :
                    text[k] = c /\ \A j \in 1..(k - 1) : text[j] # c
         IN <<SubSeq(text, 1, i - 1)>> \o Split(SubSeq(text, i + 1, Len(text)), c)

\* text.splitlines(): a final newline ends the last line, '' has no line.
SplitLines(text) ==
    IF text = <<>> THEN <<>>
    ELSE IF text[Len(text)] = NL THEN Split(SubSeq(text, 1, Len(text) - 1), NL)
    ELSE Split(text, NL)

(***************************************************************************)
(* Step.append, Step.clear and the colour carried from line to line.       *)
(*                                                                         *)
(* A written text is [plain, sty]: its visible characters and, for each of *)
(* them, the style covering it ("" none, "1" bold).  The step is           *)
(* [log, color]: the texts written to the log widget, and self.color.      *)
(***************************************************************************)
NoStyle == ""

\* Text(str): an unstyled text.
PlainText(text) == [plain |-> text, sty |-> [i \in 1..Len(text) |-> NoStyle]]

\* An SGR sequence ESC [ <code> m at the head of line.
IsSgr(line) ==
    /\ Len(line) >= 4
    /\ line[1] = ANSI_ESCAPE_SEQUENCE
    /\ line[2] = "["
    /\ line[3] \in {"0", "1"}
    /\ line[4] = "m"

RECURSIVE DecodeLine(_, _)
\* AnsiDecoder.decode_line: SGR 0 resets the decoder's style, SGR 1 sets
\* bold; any other character is visible and takes the current style.
\* acc = [plain, sty, style]; style is kept from line to line.
DecodeLine(line, acc) ==
    IF line = <<>> THEN acc
    ELSE IF IsSgr(line)
    THEN DecodeLine(SubSeq(line, 5, Len(line)),
                    [acc EXCEPT !.style = IF line[3] = "0" THEN NoStyle ELSE line[3]])
    ELSE DecodeLine(Tail(line),
                    [plain |-> Append(acc.plain, Head(line)),
                     sty |-> Append(acc.sty, acc.style),
                     style |-> acc.style])

RECURSIVE DecodeLines(_, _, _)
\* joiner.join(decoder.decode(text)): lines decoded in turn, joined by an
\* unstyled newline.
DecodeLines(lines, acc, first) ==
    IF lines = <<>> THEN acc
    ELSE LET sep == IF first THEN acc
                    ELSE [plain |-> Append(acc.plain, NL),
                          sty |-> Append(acc.sty, NoStyle),
                          style |-> acc.style]
         IN DecodeLines(Tail(lines), DecodeLine(Head(lines), sep), FALSE)

\* Text.from_ansi(text)
FromAnsi(text) ==
    LET r == DecodeLines(SplitLines(text), [plain |-> <<>>, sty |-> <<>>, style |-> NoStyle], TRUE)
    IN [plain |-> r.plain, sty |-> r.sty]

\* style.render('_').split('_')[0]
StyleRender(style) == IF style = NoStyle THEN <<>> ELSE <<ANSI_ESCAPE_SEQUENCE, "[", style, "m">>

\* Step.last_character_color: the last span covers the last character iff
\* the text is not empty and its last character is styled.
last_character_color(text) ==
    IF Len(text.plain) > 0 /\ text.sty[Len(text.plain)] # NoStyle
    THEN StyleRender(text.sty[Len(text.plain)])
    ELSE <<>>

\* Mutant: the reset sequence at the end of the string is not looked at.
next_line_color_ignores_reset(string, text) == last_character_color(text)

\* Step.next_line_color
next_line_color(string, text) ==
    IF EndsWith(string, SgrReset) THEN <<>> ELSE last_character_color(text)

\* Step.append, lines 60-61: strip one (and only one) trailing newline.
StripNL(text) ==
    IF Len(text) > 0 /\ text[Len(text)] = NL
    THEN SubSeq(text, 1, Len(text) - 1)
    ELSE text

\* Mutant: self.color is not put in front of the text.
StepAppendNoPrefix(st, text) ==
    LET stripped == StripNL(text)
    IN IF Contains(stripped, ANSI_ESCAPE_SEQUENCE)
       THEN LET text_to_write == FromAnsi(stripped)
            IN [log |-> Append(st.log, text_to_write),
                color |-> next_line_color(stripped, text_to_write)]
       ELSE [log |-> Append(st.log, PlainText(stripped)), color |-> st.color]

\* Step.append
StepAppend(st, text) ==
    LET stripped == StripNL(text)
        prefixed == IF st.color # <<>> THEN st.color \o stripped ELSE stripped
    IN IF Contains(prefixed, ANSI_ESCAPE_SEQUENCE)
       THEN LET text_to_write == FromAnsi(prefixed)
            IN [log |-> Append(st.log, text_to_write),
                color |-> next_line_color(prefixed, text_to_write)]
       ELSE [log |-> Append(st.log, PlainText(prefixed)), color |-> st.color]

\* Mutant: self.color is left as it is.
StepClearLogOnly(st) == [log |-> <<>>, color |-> st.color]

\* Step.clear
StepClear(st) == [log |-> <<>>, color |-> <<>>]

RECURSIVE LogLines(_)
\* The lines the log widget shows: each written text is rendered as the
\* lines between its newlines.
LogLines(log) ==
    IF log = <<>> THEN <<>>
    ELSE Split(Head(log).plain, NL) \o LogLines(Tail(log))

(***************************************************************************)
(* State.                                                                  *)
(***************************************************************************)
VARIABLES
    log,               \* Step.log_widget: the texts written, in order
    color,             \* Step.color
    prevent_deletion,  \* Step.prevent_deletion, the busy counter
    status,            \* per pass command: "none", "rejected", "accepted"
    fds,               \* helpers['file_descriptors'] of the pass command is not empty
    kwarg,             \* kwargs.get('read_size') of the pass command
    content,           \* what the descriptor of the session holds
    pos,               \* characters of it read so far
    rpc,               \* reader worker: where it is
    read_size,         \* reader: read_size
    rdata,             \* reader: data
    error,             \* reader: error
    rcancelled,        \* reader: current_worker.is_cancelled
    queue,             \* the Queue between the two workers
    apc,               \* assembler worker: where it is
    buffer,            \* assembler: buffer
    after,             \* assembler: after
    acall,             \* assembler: the text handed to call_from_thread
    acancelled,        \* assembler: current_worker.is_cancelled
    tmp,               \* assembler: prevent_deletion as loaded by += / -=
    replies,           \* helpers['reply'] calls of each pass command
    pushed,            \* history: everything the reader put on the queue
    sunk,              \* history: every text the assembler had appended
    ncmds,             \* append / clear commands handled so far
    lastcmd            \* the last of them: what it was given and did

stepv == <<log, color, prevent_deletion>>
passv == <<status, fds, kwarg, content>>
readerv == <<pos, rpc, read_size, rdata, error, pushed>>
asmv == <<apc, buffer, after, acall, tmp, sunk>>
cancelv == <<rcancelled, acancelled>>
cmdv == <<ncmds, lastcmd>>
vars == <<stepv, passv, readerv, asmv, cancelv, cmdv, queue, replies>>

Reply(done, err) == [done |-> done, error |-> err]

NoCmd == [kind |-> "none", has_text |-> FALSE, text |-> <<>>, ret |-> "none", replied |-> <<>>]

\* Step.__init__, and no command received yet.
Init ==
    /\ log = <<>>
    /\ color = <<>>
    /\ prevent_deletion = 0
    /\ status = [s \in Sess |-> "none"]
    /\ fds = [s \in Sess |-> FALSE]
    /\ kwarg = [s \in Sess |-> ReadSizeArg("absent", 0)]
    /\ content = [s \in Sess |-> <<>>]
    /\ pos = [s \in Sess |-> 0]
    /\ rpc = [s \in Sess |-> "idle"]
    /\ read_size = [s \in Sess |-> 0]
    /\ rdata = [s \in Sess |-> <<>>]
    /\ error = [s \in Sess |-> NoError]
    /\ rcancelled = [s \in Sess |-> FALSE]
    /\ queue = [s \in Sess |-> <<>>]
    /\ apc = [s \in Sess |-> "idle"]
    /\ buffer = [s \in Sess |-> <<>>]
    /\ after = [s \in Sess |-> <<>>]
    /\ acall = [s \in Sess |-> <<>>]
    /\ acancelled = [s \in Sess |-> FALSE]
    /\ tmp = [s \in Sess |-> 0]
    /\ replies = [s \in Sess |-> <<>>]
    /\ pushed = [s \in Sess |-> <<>>]
    /\ sunk = [s \in Sess |-> <<>>]
    /\ ncmds = 0
    /\ lastcmd = NoCmd

(***************************************************************************)
(* Commands.                                                               *)
(***************************************************************************)
\* Mutant: the text is appended before its presence is tested.
cli_action_append_unchecked(has_text, text) ==
    /\ ncmds' = ncmds + 1
    /\ LET st == StepAppend([log |-> log, color |-> color], JoinWith(text, <<NL>>))
       IN /\ log' = st.log
          /\ color' = st.color
    /\ lastcmd' = IF ~has_text
                  THEN [kind |-> "append", has_text |-> FALSE, text |-> <<>>, ret |-> "none",
                        replied |-> <<Reply(FALSE, "missing text for append operation")>>]
                  ELSE [kind |-> "append", has_text |-> TRUE, text |-> text, ret |-> "append",
                        replied |-> <<>>]
    /\ UNCHANGED <<prevent_deletion, passv, readerv, asmv, cancelv, queue, replies>>

\* Step.cli_action_append.  has_text: 'text' in kwargs; text: kwargs['text'].
\* The returned (self.append, text) is called by the dispatcher on the
\* mutation context.
cli_action_append(has_text, text) ==
    /\ ncmds' = ncmds + 1
    /\ IF ~has_text
       THEN /\ lastcmd' = [kind |-> "append", has_text |-> FALSE, text |-> <<>>, ret |-> "none",
                           replied |-> <<Reply(FALSE, "missing text for append operation")>>]
            /\ UNCHANGED <<log, color>>
       ELSE LET st == StepAppend([log |-> log, color |-> color], JoinWith(text, <<NL>>))
            IN /\ lastcmd' = [kind |-> "append", has_text |-> TRUE, text |-> text, ret |-> "append",
                              replied |-> <<>>]
               /\ log' = st.log
               /\ color' = st.color
    /\ UNCHANGED <<prevent_deletion, passv, readerv, asmv, cancelv, queue, replies>>

\* Step.cli_action_clear; the returned (self.clear,) is called likewise.
cli_action_clear ==
    /\ ncmds' = ncmds + 1
    /\ lastcmd' = [kind |-> "clear", has_text |-> FALSE, text |-> <<>>, ret |-> "clear",
                    replied |-> <<>>]
    /\ log' = StepClear([log |-> log, color |-> color]).log
    /\ color' = StepClear([log |-> log, color |-> color]).color
    /\ UNCHANGED <<prevent_deletion, passv, readerv, asmv, cancelv, queue, replies>>

\* Step.cli_action_pass.  has_fd: helpers['file_descriptors'] is not empty;
\* rs: kwargs.get('read_size'); text: what the descriptor will deliver.
\* Calling the two @work(thread=True) methods creates the workers; their
\* bodies run later, on their own threads.
cli_action_pass(s, has_fd, rs, text) ==
    /\ status[s] = "none"
    /\ fds' = [fds EXCEPT ![s] = has_fd]
    /\ kwarg' = [kwarg EXCEPT ![s] = rs]
    /\ IF ~has_fd
       THEN /\ status' = [status EXCEPT ![s] = "rejected"]
            /\ replies' = [replies EXCEPT ![s] =
                    Append(@, Reply(FALSE, "missing file descriptor for pass operation"))]
            /\ UNCHANGED <<content, rpc, apc>>
       ELSE /\ status' = [status EXCEPT ![s] = "accepted"]
            /\ content' = [content EXCEPT ![s] = text]
            /\ apc' = [apc EXCEPT ![s] = "inc"]
            /\ rpc' = [rpc EXCEPT ![s] = "open"]
            /\ UNCHANGED replies
    /\ UNCHANGED <<stepv, pos, read_size, rdata, error, pushed, buffer, after, acall, tmp, sunk,
                   cancelv, cmdv, queue>>

(***************************************************************************)
(* The reader worker: Step.append_from_file_descriptor_to_queue.           *)
(***************************************************************************)
\* text_io.read(n) on what is left: everything when n < 0, nothing when
\* n = 0, else n characters, or fewer at the end of the stream.
Read(rest, n) ==
    IF n < 0 THEN rest
    ELSE SubSeq(rest, 1, IF n < Len(rest) THEN n ELSE Len(rest))

Rest(s) == SubSeq(content[s], pos[s] + 1, Len(content[s]))

\* except Exception as exc: error = str(exc); nothing is put on the queue.
ReaderExcept(s, msg) ==
    /\ error' = [error EXCEPT ![s] = msg]
    /\ rpc' = [rpc EXCEPT ![s] = "reply"]
    /\ UNCHANGED <<pos, read_size, rdata, pushed, queue>>

\* os.fdopen(file_desc), then read_size = int(kwargs.get('read_size', 1)).
ReaderOpen(s) ==
    /\ rpc[s] = "open"
    /\ \/ ReaderExcept(s, "OSError: fdopen")
       \/ /\ kwarg[s].kind = "str"
          /\ ReaderExcept(s, "ValueError: invalid literal for int()")
       \/ /\ kwarg[s].kind # "str"
          /\ read_size' = [read_size EXCEPT ![s] =
                IF kwarg[s].kind = "absent" THEN 1 ELSE kwarg[s].value]
          /\ rpc' = [rpc EXCEPT ![s] = "read"]
          /\ UNCHANGED <<pos, rdata, error, pushed, queue>>
    /\ UNCHANGED <<stepv, passv, asmv, cancelv, cmdv, replies>>

\* while data := text_io.read(read_size): the read and the test of data.
ReaderRead(s) ==
    /\ rpc[s] = "read"
    /\ \/ ReaderExcept(s, "OSError: read")
       \/ LET data == Read(Rest(s), read_size[s])
          IN /\ rdata' = [rdata EXCEPT ![s] = data]
             /\ pos' = [pos EXCEPT ![s] = @ + Len(data)]
             /\ rpc' = [rpc EXCEPT ![s] = IF data = <<>> THEN "eof" ELSE "check"]
             /\ UNCHANGED <<read_size, error, pushed, queue>>
    /\ UNCHANGED <<stepv, passv, asmv, cancelv, cmdv, replies>>

\* Mutant: is_cancelled is not tested.
ReaderPutAlways(s) ==
    /\ rpc[s] = "check"
    /\ queue' = [queue EXCEPT ![s] = Append(@, Chunk(rdata[s]))]
    /\ pushed' = [pushed EXCEPT ![s] = Append(@, Chunk(rdata[s]))]
    /\ rpc' = [rpc EXCEPT ![s] = "read"]
    /\ UNCHANGED <<stepv, passv, pos, read_size, rdata, error, asmv, cancelv, cmdv, replies>>

\* if current_worker.is_cancelled: break / queue.put_nowait(data)
ReaderPut(s) ==
    /\ rpc[s] = "check"
    /\ IF rcancelled[s]
       THEN /\ rpc' = [rpc EXCEPT ![s] = "eof"]
            /\ UNCHANGED <<queue, pushed>>
       ELSE /\ queue' = [queue EXCEPT ![s] = Append(@, Chunk(rdata[s]))]
            /\ pushed' = [pushed EXCEPT ![s] = Append(@, Chunk(rdata[s]))]
            /\ rpc' = [rpc EXCEPT ![s] = "read"]
    /\ UNCHANGED <<stepv, passv, pos, read_size, rdata, error, asmv, cancelv, cmdv, replies>>

\* Mutant: the loop is left without the EOF marker being put.
ReaderPutEofForgotten(s) ==
    /\ rpc[s] = "eof"
    /\ rpc' = [rpc EXCEPT ![s] = "reply"]
    /\ UNCHANGED <<stepv, passv, pos, read_size, rdata, error, pushed, asmv, cancelv, cmdv,
                   queue, replies>>

\* queue.put_nowait(None), after the loop
ReaderPutEof(s) ==
    /\ rpc[s] = "eof"
    /\ queue' = [queue EXCEPT ![s] = Append(@, EOF)]
    /\ pushed' = [pushed EXCEPT ![s] = Append(@, EOF)]
    /\ rpc' = [rpc EXCEPT ![s] = "reply"]
    /\ UNCHANGED <<stepv, passv, pos, read_size, rdata, error, asmv, cancelv, cmdv, replies>>

\* Mutant: the reply is sent from inside the try block, so that a reader
\* leaving through the except clause never replies.
ReaderReplyInTry(s) ==
    /\ rpc[s] = "reply"
    /\ replies' = [replies EXCEPT ![s] =
            IF error[s] = NoError THEN Append(@, Reply(TRUE, NoError)) ELSE @]
    /\ rpc' = [rpc EXCEPT ![s] = "done"]
    /\ UNCHANGED <<stepv, passv, pos, read_size, rdata, error, pushed, asmv, cancelv, cmdv,
                   queue>>

\* Mutant: done tells whether the worker was cancelled, not whether it failed.
ReaderReplyDoneIfNotCancelled(s) ==
    /\ rpc[s] = "reply"
    /\ replies' = [replies EXCEPT ![s] = Append(@, Reply(~rcancelled[s], error[s]))]
    /\ rpc' = [rpc EXCEPT ![s] = "done"]
    /\ UNCHANGED <<stepv, passv, pos, read_size, rdata, error, pushed, asmv, cancelv, cmdv,
                   queue>>

\* helpers['reply'](done=error is None, error=error)
ReaderReply(s) ==
    /\ rpc[s] = "reply"
    /\ replies' = [replies EXCEPT ![s] = Append(@, Reply(error[s] = NoError, error[s]))]
    /\ rpc' = [rpc EXCEPT ![s] = "done"]
    /\ UNCHANGED <<stepv, passv, pos, read_size, rdata, error, pushed, asmv, cancelv, cmdv,
                   queue>>

(***************************************************************************)
(* The assembler worker: Step.append_from_queue.                           *)
(***************************************************************************)
\* self.prevent_deletion += 1: the load
AsmIncLoad(s) ==
    /\ apc[s] = "inc"
    /\ tmp' = [tmp EXCEPT ![s] = prevent_deletion]
    /\ apc' = [apc EXCEPT ![s] = "incw"]
    /\ UNCHANGED <<stepv, passv, readerv, buffer, after, acall, sunk, cancelv, cmdv, queue,
                   replies>>

\* self.prevent_deletion += 1: the store
AsmIncStore(s) ==
    /\ apc[s] = "incw"
    /\ prevent_deletion' = tmp[s] + 1
    /\ apc' = [apc EXCEPT ![s] = "loop"]
    /\ UNCHANGED <<log, color, passv, readerv, buffer, after, acall, tmp, sunk, cancelv,
                   cmdv, queue, replies>>

\* Mutant: is_cancelled is not tested at the loop boundary.
AsmLoopIgnoresCancel(s) ==
    /\ apc[s] = "loop"
    /\ apc' = [apc EXCEPT ![s] = "get"]
    /\ UNCHANGED <<stepv, passv, readerv, buffer, after, acall, tmp, sunk, cancelv, cmdv,
                   queue, replies>>

\* while True: if current_worker.is_cancelled: break
AsmLoop(s) ==
    /\ apc[s] = "loop"
    /\ apc' = [apc EXCEPT ![s] = IF acancelled[s] THEN "dec" ELSE "get"]
    /\ UNCHANGED <<stepv, passv, readerv, buffer, after, acall, tmp, sunk, cancelv, cmdv,
                   queue, replies>>

\* Mutant: at EOF the buffer is flushed even when it is empty.
AsmGetFlushesAlways(s) ==
    /\ apc[s] = "get"
    /\ queue[s] # <<>>
    /\ queue' = [queue EXCEPT ![s] = Tail(@)]
    /\ LET item == Head(queue[s])
           data == item.data
           eol == RFind(data, NL)
       IN IF ~item.eof
          THEN IF eol = 0
               THEN /\ buffer' = [buffer EXCEPT ![s] = Append(@, data)]
                    /\ apc' = [apc EXCEPT ![s] = "loop"]
                    /\ UNCHANGED <<after, acall>>
               ELSE /\ buffer' = [buffer EXCEPT ![s] = Append(@, SubSeq(data, 1, eol - 1))]
                    /\ after' = [after EXCEPT ![s] = SubSeq(data, eol + 1, Len(data))]
                    /\ acall' = [acall EXCEPT ![s] = Join(buffer'[s])]
                    /\ apc' = [apc EXCEPT ![s] = "call"]
          ELSE IF TRUE
               THEN /\ acall' = [acall EXCEPT ![s] = Join(buffer[s])]
                    /\ apc' = [apc EXCEPT ![s] = "lastcall"]
                    /\ UNCHANGED <<buffer, after>>
               ELSE /\ apc' = [apc EXCEPT ![s] = "dec"]
                    /\ UNCHANGED <<buffer, after, acall>>
    /\ UNCHANGED <<stepv, passv, readerv, tmp, sunk, cancelv, cmdv, replies>>

\* Mutant: the chunk is cut at its first newline, not its last.
AsmGetFirstNewline(s) ==
    /\ apc[s] = "get"
    /\ queue[s] # <<>>
    /\ queue' = [queue EXCEPT ![s] = Tail(@)]
    /\ LET item == Head(queue[s])
           data == item.data
           eol == IF Contains(data, NL) THEN Len(Head(Split(data, NL))) + 1 ELSE 0
       IN IF ~item.eof
          THEN IF eol = 0
               THEN /\ buffer' = [buffer EXCEPT ![s] = Append(@, data)]
                    /\ apc' = [apc EXCEPT ![s] = "loop"]
                    /\ UNCHANGED <<after, acall>>
               ELSE /\ buffer' = [buffer EXCEPT ![s] = Append(@, SubSeq(data, 1, eol - 1))]
                    /\ after' = [after EXCEPT ![s] = SubSeq(data, eol + 1, Len(data))]
                    /\ acall' = [acall EXCEPT ![s] = Join(buffer'[s])]
                    /\ apc' = [apc EXCEPT ![s] = "call"]
          ELSE IF buffer[s] # <<>>
               THEN /\ acall' = [acall EXCEPT ![s] = Join(buffer[s])]
                    /\ apc' = [apc EXCEPT ![s] = "lastcall"]
                    /\ UNCHANGED <<buffer, after>>
               ELSE /\ apc' = [apc EXCEPT ![s] = "dec"]
                    /\ UNCHANGED <<buffer, after, acall>>
    /\ UNCHANGED <<stepv, passv, readerv, tmp, sunk, cancelv, cmdv, replies>>

\* data = queue.get(), which blocks while the queue is empty, and what is
\* done with data up to the next call_from_thread or loop boundary.
AsmGet(s) ==
    /\ apc[s] = "get"
    /\ queue[s] # <<>>
    /\ queue' = [queue EXCEPT ![s] = Tail(@)]
    /\ LET item == Head(queue[s])
           data == item.data
           eol == RFind(data, NL)
       IN IF ~item.eof
          THEN IF eol = 0
               THEN /\ buffer' = [buffer EXCEPT ![s] = Append(@, data)]
                    /\ apc' = [apc EXCEPT ![s] = "loop"]
                    /\ UNCHANGED <<after, acall>>
               ELSE /\ buffer' = [buffer EXCEPT ![s] = Append(@, SubSeq(data, 1, eol - 1))]
                    /\ after' = [after EXCEPT ![s] = SubSeq(data, eol + 1, Len(data))]
                    /\ acall' = [acall EXCEPT ![s] = Join(buffer'[s])]
                    /\ apc' = [apc EXCEPT ![s] = "call"]
          ELSE IF buffer[s] # <<>>
               THEN /\ acall' = [acall EXCEPT ![s] = Join(buffer[s])]
                    /\ apc' = [apc EXCEPT ![s] = "lastcall"]
                    /\ UNCHANGED <<buffer, after>>
               ELSE /\ apc' = [apc EXCEPT ![s] = "dec"]
                    /\ UNCHANGED <<buffer, after, acall>>
    /\ UNCHANGED <<stepv, passv, readerv, tmp, sunk, cancelv, cmdv, replies>>

\* Mutant: what followed the newline is not put back in the buffer.
call_from_thread_drops_after(s) ==
    /\ apc[s] \in {"call", "lastcall"}
    /\ LET st == StepAppend([log |-> log, color |-> color], acall[s])
       IN /\ log' = st.log
          /\ color' = st.color
    /\ sunk' = [sunk EXCEPT ![s] = Append(@, acall[s])]
    /\ buffer' = [buffer EXCEPT ![s] = <<>>]
    /\ apc' = [apc EXCEPT ![s] = IF apc[s] = "call" THEN "loop" ELSE "dec"]
    /\ UNCHANGED <<prevent_deletion, passv, readerv, after, acall, tmp, cancelv, cmdv, queue,
                   replies>>

\* self.app.call_from_thread(self.append, ''.join(buffer)): the mutation
\* context runs Step.append while the assembler waits; the assembler then
\* goes on (buffer.clear(), if after: buffer.append(after)) or breaks.
call_from_thread(s) ==
    /\ apc[s] \in {"call", "lastcall"}
    /\ LET st == StepAppend([log |-> log, color |-> color], acall[s])
       IN /\ log' = st.log
          /\ color' = st.color
    /\ sunk' = [sunk EXCEPT ![s] = Append(@, acall[s])]
    /\ IF apc[s] = "call"
       THEN /\ buffer' = [buffer EXCEPT ![s] = IF after[s] # <<>> THEN <<after[s]>> ELSE <<>>]
            /\ apc' = [apc EXCEPT ![s] = "loop"]
       ELSE /\ apc' = [apc EXCEPT ![s] = "dec"]
            /\ UNCHANGED buffer
    /\ UNCHANGED <<prevent_deletion, passv, readerv, after, acall, tmp, cancelv, cmdv, queue,
                   replies>>

\* finally: self.prevent_deletion -= 1: the load
AsmDecLoad(s) ==
    /\ apc[s] = "dec"
    /\ tmp' = [tmp EXCEPT ![s] = prevent_deletion]
    /\ apc' = [apc EXCEPT ![s] = "decw"]
    /\ UNCHANGED <<stepv, passv, readerv, buffer, after, acall, sunk, cancelv, cmdv, queue,
                   replies>>

\* finally: self.prevent_deletion -= 1: the store
AsmDecStore(s) ==
    /\ apc[s] = "decw"
    /\ prevent_deletion' = tmp[s] - 1
    /\ apc' = [apc EXCEPT ![s] = "done"]
    /\ UNCHANGED <<log, color, passv, readerv, buffer, after, acall, tmp, sunk, cancelv,
                   cmdv, queue, replies>>

(***************************************************************************)
(* Cancellation of a running worker (Worker.cancel sets is_cancelled).     *)
(***************************************************************************)
CancelReader(s) ==
    /\ rpc[s] \notin {"idle", "done"}
    /\ ~rcancelled[s]
    /\ rcancelled' = [rcancelled EXCEPT ![s] = TRUE]
    /\ UNCHANGED <<stepv, passv, readerv, asmv, acancelled, cmdv, queue, replies>>

CancelAssembler(s) ==
    /\ apc[s] \notin {"idle", "done"}
    /\ ~acancelled[s]
    /\ acancelled' = [acancelled EXCEPT ![s] = TRUE]
    /\ UNCHANGED <<stepv, passv, readerv, asmv, rcancelled, cmdv, queue, replies>>

(***************************************************************************)
(* Specification.                                                          *)
(***************************************************************************)
\* The commands a step receives that are not pass commands.
Command ==
    /\ ncmds < MaxCmds
    /\ \/ \E has_text \in BOOLEAN, text \in AppendTextLists : cli_action_append(has_text, text)
       \/ cli_action_clear

\* A pass command for session s.
PassCommand(s) ==
    \E has_fd \in BOOLEAN, rs \in ReadSizeArgs, text \in StreamTexts :
        cli_action_pass(s, has_fd, rs, text)

\* A step of one of the two workers of session s, or of what surrounds them.
StreamStep(s) ==
    \/ ReaderOpen(s)
    \/ ReaderRead(s)
    \/ ReaderPut(s)
    \/ ReaderPutEof(s)
    \/ ReaderReply(s)
    \/ AsmIncLoad(s)
    \/ AsmIncStore(s)
    \/ AsmLoop(s)
    \/ AsmGet(s)
    \/ call_from_thread(s)
    \/ AsmDecLoad(s)
    \/ AsmDecStore(s)
    \/ CancelReader(s)
    \/ CancelAssembler(s)

\* A step that receives plain commands and one pass command.
Next == Command \/ PassCommand(1) \/ StreamStep(1)

Spec == Init /\ [][Next]_vars

\* The steps of each thread.
Reader(s) ==
    ReaderOpen(s) \/ ReaderRead(s) \/ ReaderPut(s) \/ ReaderPutEof(s) \/ ReaderReply(s)

Assembler(s) ==
    \/ AsmIncLoad(s)
    \/ AsmIncStore(s)
    \/ AsmLoop(s)
    \/ AsmGet(s)
    \/ AsmDecLoad(s)
    \/ AsmDecStore(s)

\* Both worker threads and the mutation context keep running: a thread that
\* can take a step eventually takes one.
FairSpec ==
    /\ Spec
    /\ WF_vars(Reader(1))
    /\ WF_vars(Assembler(1))
    /\ WF_vars(call_from_thread(1))

(***************************************************************************)
(* Properties.                                                             *)
(***************************************************************************)
Accepted(s) == status[s] = "accepted"
Replied(s) == replies[s] # <<>>
Failed(s) == error[s] # NoError

\* EOF markers the reader of session s has put on the queue so far.
EofCount(s) == Cardinality({i \in DOMAIN pushed[s] : pushed[s][i].eof})

\* Session s read its whole descriptor, in chunks of read_size > 0, and ended
\* through end-of-stream: no failure, no cancellation, both workers
\* terminated.
NormalEnd(s) ==
    /\ Accepted(s)
    /\ read_size[s] > 0
    /\ rpc[s] = "done"
    /\ apc[s] = "done"
    /\ ~Failed(s)
    /\ ~rcancelled[s]
    /\ ~acancelled[s]
    /\ pos[s] = Len(content[s])

\* Nothing but session s has written to the step, which started empty.
OnlyWriter(s) ==
    /\ ncmds = 0
    /\ \A t \in Sess \ {s} : ~Accepted(t)

\* C1: after a session that ended by normal end-of-stream on an initially
\* empty step, the lines of the step are the lines of the whole text, split
\* on newlines, whatever the chunks the text was read in.
C1_LinesAreSplitOfText ==
    \A s \in Sess :
        NormalEnd(s) /\ OnlyWriter(s) => LogLines(log) = SplitLines(content[s])

\* C2: a reader worker that has terminated has put exactly one EOF marker on
\* the queue, whatever its exit path.
C2_OneEofOnEveryExit ==
    \A s \in Sess : rpc[s] = "done" => EofCount(s) = 1

\* C3 (as stated): the reply of an accepted pass command is emitted only once
\* both workers have terminated and the busy counter has been decremented.
C3_ReplyAfterBothWorkers ==
    \A s \in Sess : Accepted(s) /\ Replied(s) => rpc[s] = "done" /\ apc[s] = "done"

\* C3 (amended): the reply of an accepted pass command is the last act of
\* the reader worker, emitted once it has put the EOF marker on the queue or
\* recorded a failure; the assembler may still be running then.
C3_ReplyAfterReader ==
    \A s \in Sess :
        Accepted(s) /\ Replied(s) =>
            /\ rpc[s] = "done"
            /\ Failed(s) \/ (EofCount(s) = 1 /\ pushed[s][Len(pushed[s])] = EOF)

\* The reply is out while the assembler has not even taken the EOF marker
\* off the queue.
C3_Witness ==
    /\ Accepted(1)
    /\ Replied(1)
    /\ ~Failed(1)
    /\ apc[1] \in {"inc", "get"}
    /\ queue[1] # <<>>

\* C4: between the acceptance of a pass command and its reply, the busy
\* counter of the step is greater than zero.
C4_BusyUntilReply ==
    \A s \in Sess : Accepted(s) /\ ~Replied(s) => prevent_deletion > 0

\* C5: after a failure of the reader while opening or reading the
\* descriptor, the assembler eventually terminates and the busy counter
\* eventually returns to what it was before the session (0).
C5_FailureEndsSession ==
    \A s \in Sess : (Accepted(s) /\ Failed(s)) ~> (apc[s] = "done" /\ prevent_deletion = 0)

\* C6: every pass command produces exactly one reply: a rejected command
\* has replied and started no worker; an accepted one has not replied while
\* its reader runs and has replied once when its reader has terminated.
C6_ExactlyOneReply ==
    \A s \in Sess :
        /\ Len(replies[s]) <= 1
        /\ status[s] = "none" => replies[s] = <<>>
        /\ status[s] = "rejected" =>
                Len(replies[s]) = 1 /\ rpc[s] = "idle" /\ apc[s] = "idle"
        /\ Accepted(s) /\ rpc[s] # "done" => replies[s] = <<>>
        /\ Accepted(s) /\ rpc[s] = "done" => Len(replies[s]) = 1

\* A reader that left through the except clause after cancellation, and has
\* replied.
C6_Witness ==
    /\ Accepted(1)
    /\ rpc[1] = "done"
    /\ Failed(1)
    /\ rcancelled[1]
    /\ Len(replies[1]) = 1

\* What session s has had appended is what the step shows (no other writer).
ShowsSunk(s) ==
    /\ Len(log) = Len(sunk[s])
    /\ \A i \in 1..Len(log) : log[i].plain = StripNL(sunk[s][i])

\* C7: the reply of an accepted pass command is {done: false, error: the
\* message} iff the reader recorded a failure, {done: true, no error}
\* otherwise, cancelled or not; the step of the reader that records the
\* failure and the one that replies leave the content of the step as it is,
\* so that what was appended before the failure is still shown when the
\* reply is sent.
C7_ReplyTellsFailure ==
    /\ [](\A s \in Sess :
            Accepted(s) /\ Replied(s) =>
                LET r == replies[s][1]
                IN /\ r.done = ~Failed(s)
                   /\ r.error = error[s]
                   /\ r.done => r.error = NoError
                   /\ rcancelled[s] /\ ~Failed(s) => r.done
                   /\ ~r.done /\ OnlyWriter(s) => ShowsSunk(s))
    /\ [][\A s \in Sess :
            error'[s] # error[s] \/ replies'[s] # replies[s] => log' = log /\ color' = color]_vars

\* A read failure after two lines were appended, and its reply.
C7_Witness ==
    /\ Accepted(1)
    /\ Replied(1)
    /\ ~replies[1][1].done
    /\ replies[1][1].error = "OSError: read"
    /\ OnlyWriter(1)
    /\ Len(sunk[1]) = 2
    /\ Len(log) = 2

\* An append command without text was just handled.
AppendRefused == ncmds' = ncmds + 1 /\ lastcmd'.kind = "append" /\ ~lastcmd'.has_text

\* A pass command without file descriptor was just handled for session s.
PassRefused(s) == status[s] = "none" /\ status'[s] # "none" /\ ~fds'[s]

IsFailureReply(r) == r.done = FALSE /\ r.error # NoError

\* C8: an append command without text, and a pass command without file
\* descriptor, reply {done: false, error: message}, return no operation,
\* start no worker, and leave content, colour and busy counter unchanged.
C8_RefusedHasNoEffect ==
    [][/\ AppendRefused =>
            /\ Len(lastcmd'.replied) = 1
            /\ IsFailureReply(lastcmd'.replied[1])
            /\ lastcmd'.ret = "none"
            /\ UNCHANGED <<log, color, prevent_deletion, status, rpc, apc, queue, replies>>
       /\ \A s \in Sess : PassRefused(s) =>
            /\ status'[s] = "rejected"
            /\ Len(replies'[s]) = 1
            /\ IsFailureReply(replies'[s][1])
            /\ UNCHANGED <<log, color, prevent_deletion, rpc, apc, queue, content, lastcmd>>]_vars

\* Both refusals have happened.
C8_Witness ==
    /\ status[1] = "rejected"
    /\ ~fds[1]
    /\ lastcmd.kind = "append"
    /\ ~lastcmd.has_text
    /\ lastcmd.replied # <<>>

\* C9: a pass command whose read_size is zero or negative is refused: no
\* worker is started and nothing is read.
C9_NonPositiveReadSizeRefused ==
    \A s \in Sess :
        status[s] # "none" /\ kwarg[s].kind = "int" /\ kwarg[s].value <= 0 =>
            status[s] = "rejected" /\ rpc[s] = "idle" /\ apc[s] = "idle" /\ pos[s] = 0

\* The reader of session s issues a read.
ReadIssued(s) == rpc[s] = "read" /\ rpc'[s] # "read"

EofConsumed(s) == EofCount(s) = 1 /\ \A i \in DOMAIN queue[s] : ~queue[s][i].eof

C11_CancelledDrainsToEof ==
    \A s \in Sess : acancelled[s] /\ apc[s] = "done" => EofConsumed(s)

\* queue[s] loses no item in this step.
NoDequeue(s) ==
    /\ Len(queue'[s]) >= Len(queue[s])
    /\ SubSeq(queue'[s], 1, Len(queue[s])) = queue[s]

\* C11 (amended): an assembler that observes its cancellation signal at a
\* loop boundary stops at once: from then on it takes nothing off the queue
\* and has nothing appended; it does not drain the queue.
C11_CancelledStopsAtOnce ==
    [][\A s \in Sess :
        /\ acancelled[s] /\ apc[s] = "loop" => apc'[s] \in {"loop", "dec"}
        /\ apc[s] \in {"dec", "decw", "done"} =>
                /\ apc'[s] \in {"dec", "decw", "done"}
                /\ NoDequeue(s)
                /\ sunk'[s] = sunk[s]
                /\ UNCHANGED <<log, color>> \/ ncmds' # ncmds]_vars

\* A cancelled assembler has terminated and left a chunk and the EOF marker
\* on the queue.
C11_Witness ==
    /\ acancelled[1]
    /\ apc[1] = "done"
    /\ Len(queue[1]) = 2
    /\ queue[1][2] = EOF

IsPrefix(p, t) == Len(p) <= Len(t) /\ SubSeq(t, 1, Len(p)) = p

\* The texts session s has had appended, joined with newlines.
SunkText(s) == JoinWith(sunk[s], <<NL>>)

\* C12: the texts appended for a session, joined with newlines, are a
\* prefix of the text read so far; after a normal end-of-stream they are the
\* whole text, up to one final newline.
C12_InOrderExactlyOnce ==
    \A s \in Sess :
        /\ IsPrefix(SunkText(s), SubSeq(content[s], 1, pos[s]))
        /\ NormalEnd(s) =>
                SunkText(s) = content[s] \/ Append(SunkText(s), NL) = content[s]

\* Two appends, the second for what followed the newline, then the end.
C12_Witness ==
    /\ NormalEnd(1)
    /\ content[1] = <<NL, "a">>
    /\ sunk[1] = << <<>>, <<"a">> >>

\* The assembler of session s takes an item off its queue.
Dequeue(s) == apc[s] = "get" /\ queue[s] # <<>> /\ queue'[s] = Tail(queue[s])

\* C18: the EOF marker is the last item the reader puts on the queue, and is
\* put at most once; having taken it off the queue, the assembler has the
\* joined buffer appended once if the buffer is not empty, nothing
\* otherwise, and terminates without taking anything more off the queue.
C18_QueueDiscipline ==
    /\ [](\A s \in Sess :
            /\ EofCount(s) <= 1
            /\ \A i \in DOMAIN pushed[s] : pushed[s][i].eof => i = Len(pushed[s])
            /\ apc[s] = "lastcall" => acall[s] = Join(buffer[s]) /\ acall[s] # <<>>)
    /\ [][\A s \in Sess :
            /\ Dequeue(s) /\ Head(queue[s]).eof =>
                    /\ apc'[s] = IF buffer[s] # <<>> THEN "lastcall" ELSE "dec"
                    /\ sunk'[s] = sunk[s]
            /\ apc[s] = "lastcall" /\ apc'[s] # "lastcall" =>
                    /\ apc'[s] = "dec"
                    /\ sunk'[s] = Append(sunk[s], Join(buffer[s]))
            /\ apc[s] \in {"lastcall", "dec", "decw", "done"} => NoDequeue(s)
            /\ apc[s] \in {"dec", "decw", "done"} => sunk'[s] = sunk[s]]_vars

\* The end of a session whose last line had no newline: the final append.
C18_Witness ==
    /\ apc[1] = "done"
    /\ ~acancelled[1]
    /\ EofConsumed(1)
    /\ content[1] = <<NL, "a">>
    /\ sunk[1] = << <<>>, <<"a">> >>

RECURSIVE ChunksText(_)
\* The text of a sequence of queue items.
ChunksText(items) ==
    IF items = <<>> THEN <<>> ELSE Head(items).data \o ChunksText(Tail(items))

\* What the assembler of session s has taken off its queue so far.
Dequeued(s) == ChunksText(SubSeq(pushed[s], 1, Len(pushed[s]) - Len(queue[s])))

RECURSIVE Flushed(_)
\* The text covered by a sequence of appends, each ended by a newline.
Flushed(texts) ==
    IF texts = <<>> THEN <<>> ELSE Head(texts) \o <<NL>> \o Flushed(Tail(texts))

\* C19: a chunk without newline is only buffered; a chunk with a newline
\* causes one append, of the buffer and of the chunk up to its last newline,
\* after which the buffer holds what followed that newline.  At each loop
\* boundary no fragment of the buffer is empty or holds a newline, and the
\* buffer is exactly the text taken off the queue and not yet appended.
C19_AssemblerStep ==
    /\ [](\A s \in Sess : apc[s] \in {"loop", "get"} =>
            /\ \A i \in DOMAIN buffer[s] :
                    buffer[s][i] # <<>> /\ ~Contains(buffer[s][i], NL)
            /\ Dequeued(s) = Flushed(sunk[s]) \o Join(buffer[s]))
    /\ [][\A s \in Sess :
            /\ Dequeue(s) /\ ~Head(queue[s]).eof =>
                    LET data == Head(queue[s]).data
                    IN /\ sunk'[s] = sunk[s]
                       /\ IF ~Contains(data, NL)
                          THEN apc'[s] = "loop" /\ buffer'[s] = Append(buffer[s], data)
                          ELSE /\ apc'[s] = "call"
                               /\ ~Contains(after'[s], NL)
                               /\ acall'[s] \o <<NL>> \o after'[s] = Join(buffer[s]) \o data
            /\ apc[s] = "call" /\ apc'[s] # "call" =>
                    /\ apc'[s] = "loop"
                    /\ sunk'[s] = Append(sunk[s], acall[s])
                    /\ Join(buffer'[s]) = after[s]]_vars

\* A chunk with a newline in its middle has been handled: one append, and
\* the rest in the buffer.
C19_Witness ==
    /\ apc[1] = "loop"
    /\ pushed[1] = <<Chunk(<<NL, "a">>)>>
    /\ sunk[1] = << <<>> >>
    /\ buffer[1] = << <<"a">> >>

\* C20: once both workers of a session are cancelled, and no read is in
\* progress or yet to be issued, both workers eventually terminate, the
\* reply is sent and the busy counter is decremented.
C20_CancelledSessionEnds ==
    \A s \in Sess :
        (Accepted(s) /\ rcancelled[s] /\ acancelled[s] /\ rpc[s] \notin {"open", "read"})
            ~> (rpc[s] = "done" /\ apc[s] = "done" /\ Replied(s))

(***************************************************************************)
(* The step under append and clear commands only, with texts of every      *)
(* shape: Step.append and Step.clear as functions of the step's state.     *)
(***************************************************************************)
AppendCalls ==
    /\ ncmds < MaxCalls
    /\ \/ \E w \in RichWords : cli_action_append(TRUE, <<w>>)
       \/ cli_action_clear

NextAppend == AppendCalls

SpecAppend == Init /\ [][NextAppend]_vars

\* This step is an append command that had its text appended.
AppendStep == ncmds' = ncmds + 1 /\ lastcmd'.ret = "append"

\* The segment given to Step.append by the command of lastcmd.
Segment(cmd) == JoinWith(cmd.text, <<NL>>)

\* The last character of a written text is covered by a style.
LastCharStyled(t) == t.plain # <<>> /\ t.sty[Len(t.plain)] # NoStyle

\* The text last written to the log.
LastWritten(l) == l[Len(l)]

Render(text) ==
    IF Contains(text, ANSI_ESCAPE_SEQUENCE) THEN FromAnsi(text) ELSE PlainText(text)

\* C14: after an append whose segment, one final newline stripped, ends with
\* the reset sequence, the step's colour is empty, whatever it was before;
\* and an append made while the colour is empty writes its segment as it
\* stands, with nothing in front of it.
C14_ResetEndsStyle ==
    [][AppendStep =>
        LET seg == StripNL(Segment(lastcmd'))
        IN /\ EndsWith(seg, SgrReset) => color' = <<>>
           /\ color = <<>> => LastWritten(log') = Render(seg)]_vars

\* A bold line, then a line ending with the reset sequence: the colour that
\* was bold is empty.
C14_Witness ==
    /\ ncmds = 2
    /\ Len(log) = 2
    /\ LastCharStyled(log[1])
    /\ lastcmd.text = << <<"a">> \o SgrReset >>
    /\ log[2] = [plain |-> <<"a">>, sty |-> <<"1">>]
    /\ color = <<>>

(***************************************************************************)
(* The step under append and clear commands while a stream session         *)
(* delivers a bold line followed by a line without style sequence.         *)
(***************************************************************************)
StyledStreamTexts == {SgrBold \o <<"a", NL, "a">>}

PassStyled(s) ==
    \E has_fd \in BOOLEAN, rs \in ReadSizeArgs, text \in StyledStreamTexts :
        cli_action_pass(s, has_fd, rs, text)

NextClear == Command \/ PassStyled(1) \/ StreamStep(1)

SpecClear == Init /\ [][NextClear]_vars

\* This step is a clear command.
ClearStep == ncmds' = ncmds + 1 /\ lastcmd'.kind = "clear"

\* The segment Step.append is given in this step, which writes to the log.
Appended ==
    IF AppendStep THEN Segment(lastcmd')
    ELSE LET s == CHOOSE s \in Sess : sunk'[s] # sunk[s] IN acall[s]

\* C15: a clear command leaves, in one step of the mutation context, both
\* the log and the colour empty, whatever appends of commands and of stream
\* sessions came before; no state has an empty log and a colour, and the
\* first text written after a clear is its segment with nothing in front.
C15_ClearIsAtomic ==
    /\ [](log = <<>> => color = <<>>)
    /\ [][/\ ClearStep => log' = <<>> /\ color' = <<>>
          /\ log = <<>> /\ log' # <<>> => log' = <<Render(StripNL(Appended))>>]_vars

\* The session had a bold line appended, the step was cleared, and the next
\* line of the session is written without style.
C15_Witness ==
    /\ lastcmd.kind = "clear"
    /\ sunk[1] = <<SgrBold \o <<"a">>, <<"a">> >>
    /\ log = <<[plain |-> <<"a">>, sty |-> <<NoStyle>>]>>
    /\ color = <<>>

(***************************************************************************)
(* Two stream sessions on the same step at the same time.                  *)
(***************************************************************************)
PassTwo(s) ==
    \E has_fd \in BOOLEAN, rs \in {ReadSizeArg("absent", 0), ReadSizeArg("str", 0)},
       text \in {<<"a">>} :
        cli_action_pass(s, has_fd, rs, text)

NextTwo == \E s \in {1, NSess} : PassTwo(s) \/ StreamStep(s)

SpecTwo == Init /\ [][NextTwo]_vars

\* The sessions whose assembler has stored its increment of the busy
\* counter and not yet its decrement.
Busy == {s \in Sess : apc[s] \in {"loop", "get", "call", "lastcall", "dec", "decw"}}

\* C16: the busy counter is never negative and is the number of sessions
\* whose assembler has incremented it and not yet decremented it.
C16_BusyCounterExact ==
    /\ prevent_deletion >= 0
    /\ prevent_deletion = Cardinality(Busy)

(***************************************************************************)
(* One stream session delivering texts of every shape, read one character  *)
(* at a time or in one piece, and that nobody cancels.                     *)
(***************************************************************************)
StyledTexts == TokenTexts(MaxStreamTokens)

\* A read_size no smaller than any of these texts.
WholeRead == 4 * MaxStreamTokens

StyledReadSizes ==
    {ReadSizeArg("absent", 0), ReadSizeArg("str", 0), ReadSizeArg("int", WholeRead)}

PassTokens(s) ==
    \E has_fd \in BOOLEAN, rs \in StyledReadSizes, text \in StyledTexts :
        cli_action_pass(s, has_fd, rs, text)

NextStyled == PassTokens(1) \/ Reader(1) \/ Assembler(1) \/ call_from_thread(1)

SpecStyled == Init /\ [][NextStyled]_vars

RECURSIVE VisibleStylesOf(_, _)
\* The styles of the characters of a written text that are not newlines.
VisibleStylesOf(plain, sty) ==
    IF plain = <<>> THEN <<>>
    ELSE (IF Head(plain) = NL THEN <<>> ELSE <<Head(sty)>>)
            \o VisibleStylesOf(Tail(plain), Tail(sty))

RECURSIVE VisibleStyles(_)
\* The style of every visible character of the log, in order.
VisibleStyles(l) ==
    IF l = <<>> THEN <<>>
    ELSE VisibleStylesOf(Head(l).plain, Head(l).sty) \o VisibleStyles(Tail(l))

\* The step after a session that read the whole text as one chunk: the
\* assembler has what precedes the last newline appended, then what follows
\* it if anything does; a text without newline is appended at EOF.
OneChunk(text) ==
    LET empty == [log |-> <<>>, color |-> <<>>]
        eol == RFind(text, NL)
    IN IF text = <<>> THEN empty
       ELSE IF eol = 0 THEN StepAppend(empty, text)
       ELSE LET st == StepAppend(empty, SubSeq(text, 1, eol - 1))
            IN IF eol < Len(text)
               THEN StepAppend(st, SubSeq(text, eol + 1, Len(text)))
               ELSE st

\* C17: after a normal end of stream, the style of every visible character
\* of the step and the step's colour are those the same text gives when it
\* is read as one chunk, however the session cut it into chunks.
C17_ChunkingIndependent ==
    \A s \in Sess :
        NormalEnd(s) /\ OnlyWriter(s) =>
            /\ VisibleStyles(log) = VisibleStyles(OneChunk(content[s]).log)
            /\ color = OneChunk(content[s]).color

====
